---- MODULE Spec2Model ----
(***************************************************************************)
(* AutoChatter: a poll loop that lists a channel's recent uploads, posts   *)
(* one comment on every upload it has not seen (with retry and exponential *)
(* backoff), and records the seen video ids in a JSON state file.          *)
(*                                                                         *)
(* Modelled from src/main.py, src/state.py, src/yt_client.py,              *)
(* src/templates.py and src/config.py.  The remote API, the file system,   *)
(* the clock, the random source and the interrupt signal are the           *)
(* environment: their answers are inputs drawn with \E.                    *)
(***************************************************************************)
EXTENDS Integers, Sequences, FiniteSets

(***************************************************************************)
(* Bounds of the model.                                                    *)
(***************************************************************************)
NumVideos == 3        \* video ids are 1..NumVideos
MaxList == 3          \* longest listing the remote API returns in the model
MaxLives == 3         \* process starts that share one state file (SpecRestart)
NumRestartVideos == 2 \* videos the channel holds under SpecRestart
MaxRestartList == 2   \* longest listing under SpecRestart
MaxRetriesCfg == 2    \* MAX_RETRIES ranges over 0..MaxRetriesCfg (Spec, SpecRestart)
MaxRetriesPost == 4   \* MAX_RETRIES ranges over 0..MaxRetriesPost (SpecPostComment)
MaxInitialCfg == 3    \* INITIAL_BACKOFF ranges over 1..MaxInitialCfg (SpecPostComment)
MaxCapCfg == 4        \* MAX_BACKOFF ranges over 1..MaxCapCfg (SpecPostComment)
MaxClock == 1         \* datetime.utcnow() answers a time in 1..MaxClock
MaxPosts == 2         \* no exception is raised once a video has MaxPosts post_comment calls
Grain == 5            \* random.random() answers k / Grain for a k in 0..Grain-1

(***************************************************************************)
(* Program constants (src/config.py, src/main.py).                         *)
(***************************************************************************)
DEFAULT_INITIAL_BACKOFF == 1
DEFAULT_MAX_BACKOFF == 300
MAX_SHORTS_DURATION == 60
MAX_RESULTS == 5
None == 0             \* Python's None for last_check_time; the clock starts at 1
DEFAULT_INCLUSION_RATE == 1  \* config.DISCORD_INCLUSION_RATE = 0.2, in units of 1 / Grain

Clock == 1..MaxClock

Videos == 1..NumVideos

VARIABLES
    MAX_RETRIES,        \* config.MAX_RETRIES
    INITIAL_BACKOFF,    \* config.INITIAL_BACKOFF
    MAX_BACKOFF,        \* config.MAX_BACKOFF
    SHORTS_ONLY,        \* config.SHORTS_ONLY
    DISCORD_LINK,       \* config.DISCORD_LINK
    DISCORD_INCLUSION_RATE, \* config.DISCORD_INCLUSION_RATE, in units of 1 / Grain
    state_file,         \* the state file on disk
    last_seen_videos,   \* StateManager.last_seen_videos
    last_check_time,    \* StateManager.last_check_time
    persisted,          \* the ids the last save that succeeded wrote to the state file
    pc,                 \* where the process is: off, poll, loop, delay, post, posted, sleep
    exit_code,          \* exit code of the last process exit, -1 while none
    videos,             \* check_for_new_videos: the fetched listing
    i,                  \* check_for_new_videos: position of the for loop
    video_id,           \* process_video: the video on the comment path, 0 if none
    retries,            \* post_comment: retries
    backoff,            \* post_comment: backoff
    success,            \* post_comment: its return value
    outcomes,           \* post_comment: outcome of each remote attempt of this call
    sleeps,             \* post_comment: each time.sleep(backoff) of this call
    comment_text,       \* process_video: the comment handed to post_comment
    log,                \* last line the StateManager logged
    processed,          \* what the last process_video of this cycle did
    life,               \* number of process starts so far
    posts,              \* post_comment invocations per video, over all lifetimes
    life_posts,         \* post_comment invocations per video, this lifetime
    cycle_posts,        \* post_comment invocations per video, this poll cycle
    seen_at_start       \* last_seen_videos when this poll cycle fetched its listing

config == <<MAX_RETRIES, INITIAL_BACKOFF, MAX_BACKOFF, SHORTS_ONLY, DISCORD_LINK,
            DISCORD_INCLUSION_RATE>>
store == <<last_seen_videos, last_check_time, log, persisted>>
call == <<retries, backoff, success, outcomes, sleeps, comment_text>>
cycle == <<videos, i, processed, cycle_posts, seen_at_start>>
vars == <<config, state_file, store, pc, exit_code, cycle, video_id, call,
          life, posts, life_posts>>

Min(a, b) == IF a <= b THEN a ELSE b

Zero == [v \in Videos |-> 0]

Range(s) == {s[k] : k \in 1..Len(s)}

(***************************************************************************)
(* src/state.py                                                            *)
(***************************************************************************)

\* list(self.last_seen_videos): the ids of the set, each once, in some order
\* (here ascending).
RECURSIVE list(_)
list(S) ==
    IF S = {} THEN <<>>
    ELSE LET m == CHOOSE x \in S : \A y \in S : x <= y
         IN <<m>> \o list(S \ {m})

\* set(data.get('last_seen_videos', []))
set(l) == Range(l)

NoFile == [kind |-> "absent", last_seen_videos |-> <<>>, last_check_time |-> None]

Malformed == [kind |-> "malformed", last_seen_videos |-> <<>>, last_check_time |-> None]

\* json.dump of {'last_seen_videos': [...], 'last_check_time': ...}
Json(ids, time) == [kind |-> "json", last_seen_videos |-> ids, last_check_time |-> time]

\* What the file system can answer to a save: the write completes; open() fails
\* and the file is left as it was; open(..., 'w') has truncated the file and the
\* write fails, which leaves a file json.load cannot parse.
SaveOutcomes == {"ok", "open_error", "write_error"}

\* StateManager.save_state: the file after the call.
save_state(ids, time, w) ==
    CASE w = "ok" -> Json(list(ids), time)
      [] w = "open_error" -> state_file
      [] w = "write_error" -> Malformed

\* StateManager.save_state: the line it logs.
save_log(w) == IF w = "ok" THEN "saved" ELSE "save_error"

\* A load that leaves the fields as they are when the file cannot be parsed.
load_state_no_reset ==
    IF state_file.kind = "absent" THEN <<{}, None, "fresh">>
    ELSE IF state_file.kind = "json"
         THEN <<set(state_file.last_seen_videos), state_file.last_check_time, "loaded">>
         ELSE <<last_seen_videos, last_check_time, "load_error">>

\* StateManager.__init__ and load_state: the store after construction, as
\* <<last_seen_videos, last_check_time, log line>>.  A file json.load cannot
\* parse is the one a failed write left.
load_state ==
    IF state_file.kind = "absent" THEN <<{}, None, "fresh">>
    ELSE IF state_file.kind = "json"
         THEN <<set(state_file.last_seen_videos), state_file.last_check_time, "loaded">>
         ELSE <<{}, None, "load_error">>

\* A lookup that asks the state file instead of the in-memory set.
is_video_seen_persisted(v) == v \in set(state_file.last_seen_videos)

\* A lookup that never finds the id.
is_video_seen_never(v) == FALSE

\* StateManager.is_video_seen
is_video_seen(v) == v \in last_seen_videos

\* A mark_video_seen that saves before it adds the id.
mark_video_seen_save_first(v, t, w) ==
    /\ state_file' = save_state(last_seen_videos, last_check_time, w)
    /\ last_seen_videos' = last_seen_videos \cup {v}
    /\ last_check_time' = t
    /\ log' = save_log(w)
    /\ persisted' = IF w = "ok" THEN last_seen_videos' ELSE persisted

\* A mark_video_seen that drops the id again when the save fails.
mark_video_seen_rollback(v, t, w) ==
    /\ last_seen_videos' = IF w = "ok" THEN last_seen_videos \cup {v} ELSE last_seen_videos
    /\ last_check_time' = IF w = "ok" THEN t ELSE last_check_time
    /\ state_file' = save_state(last_seen_videos', last_check_time', w)
    /\ log' = save_log(w)
    /\ persisted' = IF w = "ok" THEN last_seen_videos' ELSE persisted

\* A mark_video_seen that forgets the ids it held before.
mark_video_seen_evict(v, t, w) ==
    /\ last_seen_videos' = {v}
    /\ last_check_time' = t
    /\ state_file' = save_state(last_seen_videos', last_check_time', w)
    /\ log' = save_log(w)
    /\ persisted' = IF w = "ok" THEN last_seen_videos' ELSE persisted

\* A mark_video_seen that adds the new id to the ids the file holds, instead
\* of writing the whole seen set.
mark_video_seen_append(v, t, w) ==
    /\ last_seen_videos' = last_seen_videos \cup {v}
    /\ last_check_time' = t
    /\ state_file' = save_state(set(state_file.last_seen_videos) \cup {v},
                                last_check_time', w)
    /\ log' = save_log(w)
    /\ persisted' = IF w = "ok" THEN last_seen_videos' ELSE persisted

\* StateManager.mark_video_seen, with the clock's answer t to utcnow() and the
\* file system's answer w to the save.
mark_video_seen(v, t, w) ==
    /\ last_seen_videos' = last_seen_videos \cup {v}
    /\ last_check_time' = t
    /\ state_file' = save_state(last_seen_videos', last_check_time', w)
    /\ log' = save_log(w)
    /\ persisted' = IF w = "ok" THEN last_seen_videos' ELSE persisted

(***************************************************************************)
(* src/yt_client.py                                                        *)
(***************************************************************************)

\* An ISO 8601 duration as the API returns it: a sequence of number-and-unit
\* tokens.  A video of one day or more reads P#DT#H#M#S.
Tok(n, u) == [n |-> n, u |-> u]

PT1M == <<Tok(1, "M")>>
PT1M1S == <<Tok(1, "M"), Tok(1, "S")>>
P1DT30S == <<Tok(1, "D"), Tok(30, "S")>>

Durations == {PT1M, PT1M1S, P1DT30S}

\* The length in seconds the duration string denotes.
Seconds(d) ==
    LET Of(u) == IF \E k \in 1..Len(d) : d[k].u = u
                 THEN d[CHOOSE k \in 1..Len(d) : d[k].u = u].n ELSE 0
    IN Of("D") * 86400 + Of("H") * 3600 + Of("M") * 60 + Of("S")

\* re.search(r'(\d+)U', duration): the number of the first token of unit u,
\* 0 when there is none.
Match(d, u) ==
    LET hits == {k \in 1..Len(d) : d[k].u = u}
    IN IF hits = {} THEN 0
       ELSE d[CHOOSE k \in hits : \A j \in hits : k <= j].n

\* YouTubeClient._parse_duration
_parse_duration(d) == Match(d, "H") * 3600 + Match(d, "M") * 60 + Match(d, "S")

\* What videos().list can answer: the video's resource; or nothing usable (it
\* raises, or answers without an item).
FetchOutcomes == {"ok", "error"}

\* YouTubeClient.get_video_duration: seconds, or None (here -1).
get_video_duration(d, f) == IF f = "ok" THEN _parse_duration(d) ELSE -1

\* YouTubeClient.is_short
is_short(d, f) ==
    LET duration == get_video_duration(d, f)
    IN IF duration = -1 THEN FALSE ELSE duration <= MAX_SHORTS_DURATION

\* YouTubeClient.get_channel_uploads: a list of at most max_results videos;
\* the empty list also stands for a failed fetch.
ListingsOf(ids, longest) == UNION {[1..n -> ids] : n \in 0..Min(longest, MAX_RESULTS)}

Listings == ListingsOf(Videos, MaxList)

RestartListings == ListingsOf(1..NumRestartVideos, MaxRestartList)

\* What one commentThreads().insert(...).execute() can do: succeed, raise an
\* HttpError with a status, raise another exception.
Statuses == {403, 429, 500}

Ok == [kind |-> "ok", status |-> 200]

Outcomes ==
    {Ok} \cup {[kind |-> "http", status |-> s] : s \in Statuses}
         \cup {[kind |-> "error", status |-> 0]}

\* A classification that retries every HTTP error status.
IsTransient_any_error(status) == status >= 400

\* post_comment, line 223: rate limiting (429) and server errors (5xx)
IsTransient(status) == status = 429 \/ status >= 500

\* Loop tests that are off by one, either way.
MayRetry_early(r) == r + 1 < MAX_RETRIES

MayRetry_late(r) == r <= MAX_RETRIES

\* post_comment, lines 200 and 225: retries < config.MAX_RETRIES
MayRetry(r) == r < MAX_RETRIES

\* post_comment, line 231: backoff = min(backoff * 2, config.MAX_BACKOFF)
NextBackoff(b) == Min(b * 2, MAX_BACKOFF)

(***************************************************************************)
(* src/templates.py                                                        *)
(***************************************************************************)

\* The ten templates, each by its first words.
COMMENT_TEMPLATES ==
    <<"Great video!", "Amazing work!", "This is exactly", "Absolutely love",
      "Incredible video!", "This is so helpful!", "Wow, this is fantastic!",
      "Really appreciate", "Outstanding video!", "Love this!">>

\* config.DISCORD_LINK as config.py sets it.
DEFAULT_LINK == "https://discord.gg/your-invite-code"

\* A comment is the sequence of the pieces it is concatenated from.
NoComment == <<>>

JoinOurCommunity == "\n\nJoin our community: "

\* What the random source can answer to one process_video: the index
\* random.choice picks and the k of random.random() = k / Grain.
Draws == (1..Len(COMMENT_TEMPLATES)) \X (0..(Grain - 1))

\* The one answer the specifications that are not about the comment draw.
FirstDraw == {<<1, 0>>}

\* get_random_comment, with the index c that random.choice picks.
get_random_comment(include_discord, discord_link, c) ==
    LET comment == <<COMMENT_TEMPLATES[c]>>
    IN IF include_discord /\ discord_link # ""
       THEN comment \o <<JoinOurCommunity, discord_link>>
       ELSE comment

\* A test that includes the link also when the draw equals the rate.
should_include_discord_inclusive(inclusion_rate, r) == r <= inclusion_rate

\* should_include_discord, with the answer r of random.random()
should_include_discord(inclusion_rate, r) == r < inclusion_rate

(***************************************************************************)
(* src/main.py                                                             *)
(***************************************************************************)

NotProcessed ==
    [video |-> 0, path |-> "none", success |-> FALSE, duration |-> <<>>, fetch |-> "none"]

\* The values of a process that is not running, and of a fresh poll cycle.
NoCall ==
    /\ retries' = 0
    /\ backoff' = 0
    /\ success' = FALSE
    /\ outcomes' = <<>>
    /\ sleeps' = <<>>
    /\ comment_text' = NoComment

NoCycle ==
    /\ videos' = <<>>
    /\ i' = 0
    /\ processed' = NotProcessed
    /\ cycle_posts' = Zero
    /\ seen_at_start' = {}

\* The process is between its start and its exit.
Running == pc # "off"

\* main, lines 130-147: the client authenticates, the StateManager is
\* constructed and loads the state file; the polling loop starts.
Boot ==
    /\ pc = "off"
    /\ life' = life + 1
    /\ last_seen_videos' = load_state[1]
    /\ last_check_time' = load_state[2]
    /\ log' = load_state[3]
    /\ pc' = "poll"
    /\ exit_code' = -1
    /\ life_posts' = Zero
    /\ UNCHANGED <<config, state_file, persisted, cycle, video_id, call, posts>>

\* The first start of the program.
Start == life = 0 /\ Boot

\* A later start, after an exit, on the state file the earlier processes left.
Restart == life \in 1..(MaxLives - 1) /\ Boot

\* main, lines 125-144: CHANNEL_ID is not configured, or initialisation raises
\* (no client_secret.json, or any other error): the process exits with code 1.
StartFails ==
    /\ pc = "off"
    /\ life < MaxLives
    /\ life' = life + 1
    /\ exit_code' = 1
    /\ UNCHANGED <<config, state_file, store, pc, cycle, video_id, call,
                   posts, life_posts>>

\* check_for_new_videos, lines 95-99: the listing is fetched; an empty one
\* (no video, or a failed fetch) ends the cycle.
FetchUploads(l) ==
    /\ pc = "poll"
    /\ IF l = <<>>
       THEN /\ pc' = "sleep"
            /\ UNCHANGED cycle
       ELSE /\ pc' = "loop"
            /\ videos' = l
            /\ i' = 1
            /\ seen_at_start' = last_seen_videos
            /\ UNCHANGED <<processed, cycle_posts>>
    /\ UNCHANGED <<config, state_file, store, exit_code, video_id, call,
                   life, posts, life_posts>>

\* check_for_new_videos, lines 103-111: the for loop has run through the listing.
LoopDone ==
    /\ pc = "loop"
    /\ i > Len(videos)
    /\ pc' = "sleep"
    /\ processed' = NotProcessed
    /\ UNCHANGED <<config, state_file, store, exit_code, videos, i, cycle_posts,
                   seen_at_start, video_id, call, life, posts, life_posts>>

\* A loop that refreshes the last-check time and saves for a video it passes over.
LoopSeen_touch ==
    /\ pc = "loop"
    /\ i <= Len(videos)
    /\ is_video_seen(videos[i])
    /\ i' = i + 1
    /\ processed' = NotProcessed
    /\ \E t \in Clock : mark_video_seen(videos[i], t, "ok")
    /\ UNCHANGED <<config, pc, exit_code, videos, cycle_posts, seen_at_start,
                   video_id, call, life, posts, life_posts>>

\* check_for_new_videos, line 104: a video already seen is passed over.
LoopSeen ==
    /\ pc = "loop"
    /\ i <= Len(videos)
    /\ is_video_seen(videos[i])
    /\ i' = i + 1
    /\ processed' = NotProcessed
    /\ UNCHANGED <<config, state_file, store, pc, exit_code, videos,
                   cycle_posts, seen_at_start, video_id, call, life, posts,
                   life_posts>>

\* process_video, lines 38-54: Shorts-only mode, and is_short answers False:
\* the video is marked seen and process_video returns.
ProcessNonShort(d, f, t, w) ==
    /\ pc = "loop"
    /\ i <= Len(videos)
    /\ ~is_video_seen(videos[i])
    /\ SHORTS_ONLY
    /\ ~is_short(d, f)
    /\ mark_video_seen(videos[i], t, w)
    /\ processed' = [video |-> videos[i], path |-> "non_short", success |-> FALSE,
                     duration |-> d, fetch |-> f]
    /\ i' = i + 1
    /\ UNCHANGED <<config, pc, exit_code, videos, cycle_posts, seen_at_start,
                   video_id, call, life, posts, life_posts>>

\* process_video, lines 38-60: Shorts-only mode is off and the video goes on to
\* the comment path, where the pre-comment delay starts.
ProcessAny ==
    /\ pc = "loop"
    /\ i <= Len(videos)
    /\ ~is_video_seen(videos[i])
    /\ ~SHORTS_ONLY
    /\ video_id' = videos[i]
    /\ processed' = [video |-> videos[i], path |-> "comment", success |-> FALSE,
                     duration |-> <<>>, fetch |-> "none"]
    /\ pc' = "delay"
    /\ UNCHANGED <<config, state_file, store, exit_code, videos, i, cycle_posts,
                   seen_at_start, call, life, posts, life_posts>>

\* process_video, lines 38-60: Shorts-only mode, and is_short answers True.
ProcessShort(d, f) ==
    /\ pc = "loop"
    /\ i <= Len(videos)
    /\ ~is_video_seen(videos[i])
    /\ SHORTS_ONLY
    /\ is_short(d, f)
    /\ video_id' = videos[i]
    /\ processed' = [video |-> videos[i], path |-> "comment", success |-> FALSE,
                     duration |-> d, fetch |-> f]
    /\ pc' = "delay"
    /\ UNCHANGED <<config, state_file, store, exit_code, videos, i, cycle_posts,
                   seen_at_start, call, life, posts, life_posts>>

\* process_video, lines 60-70, and post_comment, lines 197-200 and 246: the
\* delay is over, the comment is chosen with the random source's answers c and
\* r, and post_comment is called; with no retry allowed its loop is not
\* entered and it returns False.
PostComment(c, r) ==
    /\ pc = "delay"
    /\ LET include_discord == should_include_discord(DISCORD_INCLUSION_RATE, r)
       IN comment_text' = get_random_comment(include_discord, DISCORD_LINK, c)
    /\ posts' = [posts EXCEPT ![video_id] = @ + 1]
    /\ life_posts' = [life_posts EXCEPT ![video_id] = @ + 1]
    /\ cycle_posts' = [cycle_posts EXCEPT ![video_id] = @ + 1]
    /\ retries' = 0
    /\ backoff' = INITIAL_BACKOFF
    /\ outcomes' = <<>>
    /\ sleeps' = <<>>
    /\ success' = FALSE
    /\ pc' = IF MayRetry(retries') THEN "post" ELSE "posted"
    /\ UNCHANGED <<config, state_file, store, exit_code, videos, i, processed,
                   seen_at_start, video_id, life>>

\* post_comment, lines 200-244: one pass of the while loop, with the remote
\* answer o to the insert.
Attempt(o) ==
    /\ pc = "post"
    /\ MayRetry(retries)
    /\ outcomes' = Append(outcomes, o)
    /\ UNCHANGED comment_text
    /\ IF o.kind = "ok"
       THEN /\ success' = TRUE
            /\ pc' = "posted"
            /\ UNCHANGED <<retries, backoff, sleeps>>
       ELSE IF o.kind = "http" /\ IsTransient(o.status)
       THEN /\ retries' = retries + 1
            /\ IF MayRetry(retries')
               THEN /\ sleeps' = Append(sleeps, backoff)
                    /\ backoff' = NextBackoff(backoff)
                    /\ pc' = "post"
                    /\ UNCHANGED success
               ELSE /\ success' = FALSE
                    /\ pc' = "posted"
                    /\ UNCHANGED <<backoff, sleeps>>
       ELSE /\ success' = FALSE
            /\ pc' = "posted"
            /\ UNCHANGED <<retries, backoff, sleeps>>
    /\ UNCHANGED <<config, state_file, store, exit_code, cycle, video_id,
                   life, posts, life_posts>>

\* A process_video that marks the video seen only when the comment was posted.
MarkAfterPost_on_success(t, w) ==
    /\ pc = "posted"
    /\ IF success THEN mark_video_seen(video_id, t, w)
       ELSE UNCHANGED <<state_file, store>>
    /\ processed' = [processed EXCEPT !.success = success]
    /\ i' = i + 1
    /\ video_id' = 0
    /\ NoCall
    /\ pc' = "loop"
    /\ UNCHANGED <<config, exit_code, videos, cycle_posts, seen_at_start, life,
                   posts, life_posts>>

\* process_video, lines 72-78: post_comment has returned; the video is marked
\* seen whatever it returned, and process_video returns.
MarkAfterPost(t, w) ==
    /\ pc = "posted"
    /\ mark_video_seen(video_id, t, w)
    /\ processed' = [processed EXCEPT !.success = success]
    /\ i' = i + 1
    /\ video_id' = 0
    /\ NoCall
    /\ pc' = "loop"
    /\ UNCHANGED <<config, exit_code, videos, cycle_posts, seen_at_start, life,
                   posts, life_posts>>

\* main, lines 156-158: the poll interval has passed; the next iteration starts.
NextPoll ==
    /\ pc = "sleep"
    /\ pc' = "poll"
    /\ NoCycle
    /\ UNCHANGED <<config, state_file, store, exit_code, video_id, call,
                   life, posts, life_posts>>

\* An exception that nothing catches: the process ends with a traceback.
Raise_uncaught ==
    /\ pc \in {"poll", "loop", "delay", "post", "posted"}
    /\ \A v \in Videos : posts[v] < MaxPosts
    /\ processed' = [NotProcessed EXCEPT !.path = "raised"]
    /\ pc' = "off"
    /\ exit_code' = 1
    /\ video_id' = 0
    /\ NoCall
    /\ UNCHANGED <<config, state_file, store, videos, i, cycle_posts,
                   seen_at_start, life, posts, life_posts>>

\* main, lines 151-154: an exception that is not a KeyboardInterrupt leaves
\* check_for_new_videos, from wherever in the cycle it was raised; the handler
\* logs it and the loop goes on to its sleep.  Which statement raises is the
\* environment's choice (random.randint and time.sleep of main.py:58-60 and
\* the time.sleep of yt_client.py:230 are outside every inner try).
Raise ==
    /\ pc \in {"poll", "loop", "delay", "post", "posted"}
    /\ \A v \in Videos : posts[v] < MaxPosts
    /\ processed' = [NotProcessed EXCEPT !.path = "raised"]
    /\ pc' = "sleep"
    /\ video_id' = 0
    /\ NoCall
    /\ UNCHANGED <<config, state_file, store, exit_code, videos, i, cycle_posts,
                   seen_at_start, life, posts, life_posts>>

\* A KeyboardInterrupt that main does not catch: the process ends with a
\* traceback and a non-zero exit code.
Interrupt_uncaught ==
    /\ Running
    /\ pc' = "off"
    /\ exit_code' = 1
    /\ video_id' = 0
    /\ NoCall
    /\ NoCycle
    /\ UNCHANGED <<config, state_file, store, life, posts, life_posts>>

\* main, lines 160-162: KeyboardInterrupt, wherever the loop is; the process
\* exits with code 0.  The store's fields keep the values the process had at
\* its exit until the next process constructs its own store.
Interrupt ==
    /\ Running
    /\ pc' = "off"
    /\ exit_code' = 0
    /\ video_id' = 0
    /\ NoCall
    /\ NoCycle
    /\ UNCHANGED <<config, state_file, store, life, posts, life_posts>>

\* The steps of a process whose listings are drawn from L and whose random
\* source answers from D.
Run(L, D) ==
    \/ Start
    \/ StartFails
    \/ \E l \in L : FetchUploads(l)
    \/ LoopDone
    \/ LoopSeen
    \/ \E d \in Durations, f \in FetchOutcomes, t \in Clock, w \in SaveOutcomes :
          ProcessNonShort(d, f, t, w)
    \/ ProcessAny
    \/ \E d \in Durations, f \in FetchOutcomes : ProcessShort(d, f)
    \/ \E d \in D : PostComment(d[1], d[2])
    \/ \E o \in Outcomes : Attempt(o)
    \/ \E t \in Clock, w \in SaveOutcomes : MarkAfterPost(t, w)
    \/ NextPoll
    \/ Interrupt

\* One process lifetime.
Next == Run(Listings, FirstDraw)

\* Several process lifetimes on one state file.
NextRestart == Run(RestartListings, FirstDraw) \/ Restart

\* Before the first start: no state file, nothing in memory.  The retry
\* settings are those of config.py apart from MAX_RETRIES; both values of the
\* Shorts-only switch are covered.
Init ==
    /\ MAX_RETRIES \in 0..MaxRetriesCfg
    /\ INITIAL_BACKOFF = DEFAULT_INITIAL_BACKOFF
    /\ MAX_BACKOFF = DEFAULT_MAX_BACKOFF
    /\ SHORTS_ONLY \in BOOLEAN
    /\ DISCORD_LINK = DEFAULT_LINK
    /\ DISCORD_INCLUSION_RATE = DEFAULT_INCLUSION_RATE
    /\ comment_text = NoComment
    /\ state_file = NoFile
    /\ last_seen_videos = {}
    /\ last_check_time = None
    /\ persisted = {}
    /\ log = "none"
    /\ pc = "off"
    /\ exit_code = -1
    /\ videos = <<>>
    /\ i = 0
    /\ processed = NotProcessed
    /\ cycle_posts = Zero
    /\ seen_at_start = {}
    /\ video_id = 0
    /\ retries = 0
    /\ backoff = 0
    /\ success = FALSE
    /\ outcomes = <<>>
    /\ sleeps = <<>>
    /\ life = 0
    /\ posts = Zero
    /\ life_posts = Zero

Spec == Init /\ [][Next]_vars

SpecRestart == Init /\ [][NextRestart]_vars

\* One process lifetime in which a poll cycle can end with an exception.  The
\* sleep of main.py:158 returns when the poll interval has passed.
NextPollLoop == Run(RestartListings, FirstDraw) \/ Raise

SpecPollLoop == Init /\ [][NextPollLoop]_vars /\ WF_vars(NextPoll)

\* post_comment alone, under every retry configuration of the bounds: the
\* first process, Shorts-only mode off, has fetched the listing <<1>> and is in
\* the pre-comment delay of video 1.
InitPostComment ==
    /\ MAX_RETRIES \in 0..MaxRetriesPost
    /\ INITIAL_BACKOFF \in 1..MaxInitialCfg
    /\ MAX_BACKOFF \in 1..MaxCapCfg
    /\ SHORTS_ONLY = FALSE
    /\ DISCORD_LINK = DEFAULT_LINK
    /\ DISCORD_INCLUSION_RATE = DEFAULT_INCLUSION_RATE
    /\ comment_text = NoComment
    /\ state_file = NoFile
    /\ last_seen_videos = {}
    /\ last_check_time = None
    /\ persisted = {}
    /\ log = "fresh"
    /\ pc = "delay"
    /\ exit_code = -1
    /\ videos = <<1>>
    /\ i = 1
    /\ processed = [video |-> 1, path |-> "comment", success |-> FALSE,
                    duration |-> <<>>, fetch |-> "none"]
    /\ cycle_posts = Zero
    /\ seen_at_start = {}
    /\ video_id = 1
    /\ retries = 0
    /\ backoff = 0
    /\ success = FALSE
    /\ outcomes = <<>>
    /\ sleeps = <<>>
    /\ life = 1
    /\ posts = Zero
    /\ life_posts = Zero

NextPostComment ==
    \/ \E d \in FirstDraw : PostComment(d[1], d[2])
    \/ \E o \in Outcomes : Attempt(o)

SpecPostComment == InitPostComment /\ [][NextPostComment]_vars

\* The comment selection of process_video alone, under every inclusion rate
\* k / Grain from 0.0 to 1.0, with and without a link, and every answer of the
\* random source: the first process is in the pre-comment delay of video 1.
InitComment ==
    /\ MAX_RETRIES \in 0..MaxRetriesCfg
    /\ INITIAL_BACKOFF = DEFAULT_INITIAL_BACKOFF
    /\ MAX_BACKOFF = DEFAULT_MAX_BACKOFF
    /\ SHORTS_ONLY = FALSE
    /\ DISCORD_LINK \in {"", DEFAULT_LINK}
    /\ DISCORD_INCLUSION_RATE \in 0..Grain
    /\ comment_text = NoComment
    /\ state_file = NoFile
    /\ last_seen_videos = {}
    /\ last_check_time = None
    /\ persisted = {}
    /\ log = "fresh"
    /\ pc = "delay"
    /\ exit_code = -1
    /\ videos = <<1>>
    /\ i = 1
    /\ processed = [video |-> 1, path |-> "comment", success |-> FALSE,
                    duration |-> <<>>, fetch |-> "none"]
    /\ cycle_posts = Zero
    /\ seen_at_start = {}
    /\ video_id = 1
    /\ retries = 0
    /\ backoff = 0
    /\ success = FALSE
    /\ outcomes = <<>>
    /\ sleeps = <<>>
    /\ life = 1
    /\ posts = Zero
    /\ life_posts = Zero

NextComment == \E d \in Draws : PostComment(d[1], d[2])

SpecComment == InitComment /\ [][NextComment]_vars

(***************************************************************************)
(* The claims.                                                             *)
(***************************************************************************)

RECURSIVE Pow2(_)
Pow2(k) == IF k = 0 THEN 1 ELSE 2 * Pow2(k - 1)

\* Every remote attempt of the current post_comment call failed with HTTP 429
\* or a status >= 500.
AllTransient(os) ==
    \A k \in 1..Len(os) :
        os[k].kind = "http" /\ (os[k].status = 429 \/ os[k].status >= 500)

\* A failure that is not transient: an HTTP rejection other than 429 and below
\* 500, or an unexpected local error.
NonTransient(o) ==
    \/ o.kind = "error"
    \/ o.kind = "http" /\ o.status # 429 /\ o.status < 500

Front(os) == SubSeq(os, 1, Len(os) - 1)

C2_Original == \A v \in Videos : posts[v] <= 1

\* C3: a call whose remote attempts were N transient failures and then a
\* success returned True after N + 1 attempts and N sleeps, with N < MAX_RETRIES;
\* and after fewer than MAX_RETRIES failures, all transient, the call has not
\* given up: it has slept once per failure and is about to attempt again.
C3_SuccessAfterTransient ==
    LET n == Len(outcomes)
    IN /\ (pc = "posted" /\ n >= 1 /\ outcomes[n] = Ok)
              => /\ success
                 /\ AllTransient(Front(outcomes))
                 /\ n - 1 < MAX_RETRIES
                 /\ Len(sleeps) = n - 1
       /\ (pc \in {"post", "posted"} /\ AllTransient(outcomes) /\ n < MAX_RETRIES)
              => pc = "post" /\ Len(sleeps) = n

\* post_comment returned True on its third attempt, after two transient failures.
C3_Witness ==
    pc = "posted" /\ success /\ Len(outcomes) = 3 /\ Len(sleeps) = 2

\* C4, as stated: a call all of whose attempts failed transiently returned
\* False after exactly MAX_RETRIES attempts and MAX_RETRIES - 1 sleeps.
C4_Original ==
    (pc = "posted" /\ AllTransient(outcomes))
        => /\ ~success
           /\ Len(outcomes) = MAX_RETRIES
           /\ Len(sleeps) = MAX_RETRIES - 1

\* C4, amended: such a call returned False after exactly MAX_RETRIES attempts
\* and, for MAX_RETRIES >= 1, MAX_RETRIES - 1 sleeps; with MAX_RETRIES = 0 it
\* made no attempt and no sleep.  No call ever makes more than MAX_RETRIES
\* attempts.
C4_Exhaustion ==
    /\ (pc = "posted" /\ AllTransient(outcomes))
           => /\ ~success
              /\ Len(outcomes) = MAX_RETRIES
              /\ Len(sleeps) = IF MAX_RETRIES = 0 THEN 0 ELSE MAX_RETRIES - 1
    /\ Len(outcomes) <= MAX_RETRIES

\* post_comment gave up after three transient failures and two sleeps.
C4_Witness ==
    /\ pc = "posted" /\ ~success /\ MAX_RETRIES = 3
    /\ Len(outcomes) = 3 /\ AllTransient(outcomes) /\ Len(sleeps) = 2

\* C5, as stated: the k-th sleep of a call (k = 0, 1, ...) lasts
\* min(INITIAL_BACKOFF * 2^k, MAX_BACKOFF) seconds.
C5_Original ==
    \A k \in 1..Len(sleeps) :
        sleeps[k] = Min(INITIAL_BACKOFF * Pow2(k - 1), MAX_BACKOFF)

\* C6, as stated: within a call the backoff never exceeds MAX_BACKOFF, no sleep
\* is longer than MAX_BACKOFF, and the backoff never decreases.
C6_Original ==
    pc \in {"post", "posted"}
        => /\ backoff <= MAX_BACKOFF
           /\ \A k \in 1..Len(sleeps) : sleeps[k] <= MAX_BACKOFF
           /\ \A k \in 1..(Len(sleeps) - 1) : sleeps[k] <= sleeps[k + 1]
           /\ Len(sleeps) >= 1 => sleeps[Len(sleeps)] <= backoff

\* C7: a non-transient failure is the last attempt of its call: the call has
\* returned False, and it slept only once for each transient failure before it.
C7_NonTransientEndsCall ==
    \A k \in 1..Len(outcomes) :
        NonTransient(outcomes[k])
            => /\ k = Len(outcomes)
               /\ pc = "posted"
               /\ ~success
               /\ Len(sleeps) = k - 1
               /\ AllTransient(Front(outcomes))

\* A 403 after two transient failures has ended the call.
C7_Witness ==
    /\ pc = "posted" /\ Len(outcomes) = 3
    /\ outcomes[3] = [kind |-> "http", status |-> 403]

\* C8: when process_video has returned from the comment path the video is in
\* the seen set, whatever post_comment returned; every video post_comment was
\* called for is in the seen set once that call is over; and post_comment is
\* called at most once per video in one process.
C8_MarkedRegardless ==
    /\ (pc = "loop" /\ processed.path = "comment")
           => processed.video \in last_seen_videos
    /\ \A v \in Videos :
           /\ life_posts[v] <= 1
           /\ (Running /\ life_posts[v] = 1 /\ video_id # v) => v \in last_seen_videos

\* process_video has returned for a second video of the cycle whose
\* post_comment returned False, and the video is in the seen set.
C8_Witness ==
    /\ pc = "loop" /\ processed.path = "comment" /\ ~processed.success
    /\ processed.video \in last_seen_videos
    /\ i = 3 /\ life_posts[videos[1]] = 1 /\ life_posts[videos[2]] = 1
    /\ videos[1] # videos[2]

\* C9, as stated: in Shorts-only mode a video of at most MAX_SHORTS_DURATION
\* seconds is never skipped by the filter, and a longer one never reaches the
\* comment path.
C9_Original ==
    SHORTS_ONLY
        => /\ processed.path = "non_short"
                  => Seconds(processed.duration) > MAX_SHORTS_DURATION
           /\ processed.path = "comment"
                  => Seconds(processed.duration) <= MAX_SHORTS_DURATION

\* C10: with Shorts-only mode off, at the end of a poll cycle post_comment has
\* been called once for each fetched video that was unseen at the start, never
\* for another, and the seen set is the earlier one plus the fetched ids.
C10_CycleAccounting ==
    (pc = "sleep" /\ videos # <<>> /\ ~SHORTS_ONLY)
        => /\ \A v \in Videos :
                  cycle_posts[v] = IF v \in Range(videos) \ seen_at_start THEN 1 ELSE 0
           /\ last_seen_videos = seen_at_start \cup Range(videos)

\* A cycle fetched three different uploads, one of them seen before, posted
\* twice, and ended with two more ids in the seen set.
C10_Witness ==
    /\ pc = "sleep" /\ ~SHORTS_ONLY
    /\ Len(videos) = 3 /\ Cardinality(Range(videos)) = 3
    /\ Cardinality(seen_at_start \cap Range(videos)) = 1
    /\ Cardinality({v \in Videos : cycle_posts[v] = 1}) = 2
    /\ Cardinality(last_seen_videos) = Cardinality(seen_at_start) + 2

\* C11: every construction of the store completes and the polling loop starts;
\* when the state file does not exist, and when it exists but cannot be
\* parsed, the new store has an empty seen set and no last-check time, whatever
\* the store of the process before held.
C11_LoadFallback ==
    [][(pc = "off" /\ pc' # "off")
           => /\ pc' = "poll" /\ exit_code' = -1
              /\ log' \in {"fresh", "loaded", "load_error"}
              /\ state_file.kind \in {"absent", "malformed"}
                     => /\ last_seen_videos' = {}
                        /\ last_check_time' = None
                        /\ log' = IF state_file.kind = "absent"
                                  THEN "fresh" ELSE "load_error"
      ]_vars

\* A second process found a state file it could not parse, which an earlier
\* process left after it had called post_comment, and started with an empty
\* seen set.
C11_Witness ==
    /\ life = 2 /\ pc = "poll" /\ log = "load_error"
    /\ state_file.kind = "malformed"
    /\ last_seen_videos = {} /\ last_check_time = None
    /\ \E v \in Videos : posts[v] = 1

\* C12: when the save inside mark_video_seen has failed, mark_video_seen and
\* process_video have returned all the same: the process is running, the for
\* loop stands at the next video of the listing, and the video is in the
\* in-memory seen set, so is_video_seen answers True for it.
C12_MarkSurvivesFailedWrite ==
    (Running /\ processed.path \in {"comment", "non_short"} /\ pc = "loop"
             /\ log = "save_error")
        => /\ exit_code = -1
           /\ i >= 2 /\ videos[i - 1] = processed.video
           /\ processed.video \in last_seen_videos
           /\ is_video_seen(processed.video)
           /\ last_check_time # None
           /\ set(state_file.last_seen_videos) \subseteq last_seen_videos \ {processed.video}

\* post_comment returned for the first video of a listing, the save of
\* mark_video_seen failed, the file holds nothing, and the loop stands at the
\* second video.
C12_Witness ==
    /\ pc = "loop" /\ log = "save_error" /\ processed.path = "comment"
    /\ i = 2 /\ Len(videos) >= 2 /\ videos[2] # videos[1]
    /\ last_seen_videos = {videos[1]}
    /\ state_file.kind # "json"

\* C13: while a process runs, every step keeps every id of the in-memory seen
\* set: a step leaves the set as it is or adds the one id being marked, which
\* is the video the for loop stands at.
C13_SeenMonotone ==
    [][(Running /\ Running')
           => /\ last_seen_videos \subseteq last_seen_videos'
              /\ last_seen_videos' # last_seen_videos
                     => /\ i \in 1..Len(videos)
                        /\ last_seen_videos' = last_seen_videos \cup {videos[i]}
      ]_vars

\* A second process, whose seen set held an id when the poll cycle fetched its
\* listing, has added another id to it and still holds the first.
C13_Witness ==
    /\ life = 2 /\ Running /\ log = "saved"
    /\ Cardinality(last_seen_videos) = 2
    /\ seen_at_start # {} /\ seen_at_start # last_seen_videos
    /\ seen_at_start \subseteq last_seen_videos

\* C14, as stated: a poll cycle whose listing fetch brought nothing ends with
\* no post_comment call and with the seen set, the last-check time and the
\* state file as they were; and a video whose duration fetch failed gets no
\* post_comment call and stays out of the seen set, with the store and the
\* state file as they were.
C14_Original ==
    [][/\ (pc = "poll" /\ pc' = "sleep")
              => UNCHANGED <<last_seen_videos, last_check_time, state_file, posts>>
       /\ (pc = "loop" /\ processed'.fetch = "error")
              => /\ UNCHANGED <<last_seen_videos, last_check_time, state_file, posts>>
                 /\ processed'.video \notin last_seen_videos'
      ]_vars

\* The poll cycle ended with an exception and the loop is in its sleep.
CycleFailed == pc = "sleep" /\ processed.path = "raised"

\* C15: an exception raised inside a poll cycle does not end the process: the
\* loop goes to its sleep with the store and the state file as the cycle left
\* them; and after every cycle that failed the next cycle begins, unless an
\* interrupt ends the process first.
C15_LoopSurvives ==
    /\ [][(Running /\ processed.path # "raised" /\ processed'.path = "raised")
              => /\ pc' = "sleep" /\ exit_code' = -1
                 /\ UNCHANGED <<state_file, store, posts>>
         ]_vars
    /\ (CycleFailed ~> (pc = "poll" \/ (pc = "off" /\ exit_code = 0)))

\* A cycle failed after it had called post_comment for a video and before it
\* marked the video seen; a later cycle of the same process has begun and has
\* called post_comment for the video again.
C15_Witness ==
    /\ life = 1 /\ pc \in {"post", "posted"}
    /\ life_posts[video_id] = 2 /\ video_id \notin last_seen_videos

\* The comment ends with the link suffix.
HasLink ==
    /\ Len(comment_text) = 3
    /\ comment_text[2] = JoinOurCommunity
    /\ comment_text[3] = DISCORD_LINK

\* C16: the comment handed to post_comment is one of the ten templates, alone
\* or followed by the link suffix; with inclusion rate 1.0 and a non-empty link
\* it has the suffix, with inclusion rate 0.0 it has not, and with an empty
\* link it has not, whatever the random source answered.
C16_CommentSelection ==
    comment_text # NoComment
        => /\ comment_text[1] \in Range(COMMENT_TEMPLATES)
           /\ Len(comment_text) = 1 \/ HasLink
           /\ (DISCORD_INCLUSION_RATE = Grain /\ DISCORD_LINK # "") => HasLink
           /\ DISCORD_INCLUSION_RATE = 0 => ~HasLink
           /\ DISCORD_LINK = "" => ~HasLink /\ Len(comment_text) = 1

\* With inclusion rate 1.0 the tenth template was drawn and carries the link.
C16_Witness ==
    /\ pc \in {"post", "posted"} /\ DISCORD_INCLUSION_RATE = Grain
    /\ comment_text = <<COMMENT_TEMPLATES[10], JoinOurCommunity, DEFAULT_LINK>>

\* C17: in every state of the running process the interrupt can arrive; the
\* step that ends the process sets exit code 0 and leaves the state file, the
\* store and the count of post_comment calls as they were; and once the process
\* has exited, the state file and the count of post_comment calls do not
\* change and no poll cycle runs, short of a new start of the program.
C17_InterruptShutdown ==
    [][/\ Running => ENABLED Interrupt
       /\ (Running /\ ~Running')
              => /\ exit_code' = 0
                 /\ UNCHANGED <<state_file, last_seen_videos, last_check_time, posts>>
       /\ ~Running
              => /\ UNCHANGED <<state_file, posts>>
                 /\ Running' => life' = life + 1
      ]_vars

\* The interrupt arrived after post_comment was called for a video and before
\* the video was marked seen: the process has exited with code 0.
C17_Witness ==
    /\ pc = "off" /\ exit_code = 0 /\ life = 1
    /\ \E v \in Videos : life_posts[v] = 1 /\ v \notin last_seen_videos

\* C18, as stated: a post_comment call that has returned made at least one
\* remote attempt, for every MAX_RETRIES; and a successful attempt is the last
\* one of its call, which returned True with no sleep after it.
C18_Original ==
    /\ pc = "posted" => Len(outcomes) >= 1
    /\ \A k \in 1..Len(outcomes) :
           outcomes[k] = Ok
               => /\ k = Len(outcomes)
                  /\ pc = "posted" /\ success
                  /\ Len(sleeps) = k - 1

\* The second half of C18 alone, which holds.
C18_SuccessReturnsAtOnce ==
    \A k \in 1..Len(outcomes) :
        outcomes[k] = Ok
            => /\ k = Len(outcomes)
               /\ pc = "posted" /\ success
               /\ Len(sleeps) = k - 1

C20_SeenSkipped ==
    [][(pc = "loop" /\ i <= Len(videos) /\ videos[i] \in last_seen_videos
           /\ Running')
           => /\ pc' = "loop" /\ i' = i + 1
              /\ processed'.fetch = "none" /\ processed'.path = "none"
              /\ UNCHANGED <<last_seen_videos, last_check_time, log, state_file,
                             posts, life_posts, cycle_posts, video_id, call>>
      ]_vars

\* The loop has passed over the first video of the listing, which was in the
\* seen set when the cycle began, and stands at the second.
C20_Witness ==
    /\ pc = "loop" /\ i = 2 /\ Len(videos) >= 2
    /\ videos[1] \in seen_at_start
    /\ processed = NotProcessed
    /\ cycle_posts = Zero

\* C21: in one process post_comment is called at most once for every video,
\* whatever the listings hold and whatever the saves answered; and every call
\* is for a video that is not in the seen set and has had no call in this
\* process, and leaves the seen set as it is until the call has returned.
C21_OnePostPerProcess ==
    [][\A v \in Videos :
           /\ life_posts[v] <= 1 /\ life_posts'[v] <= 1
           /\ (Running /\ life_posts'[v] > life_posts[v])
                  => /\ v \notin last_seen_videos
                     /\ life_posts[v] = 0
                     /\ v = video_id
           /\ (pc \in {"delay", "post", "posted"} /\ v = video_id)
                  => v \notin last_seen_videos
      ]_vars

\* Every save of the process failed.  An earlier cycle called post_comment for
\* one video; this cycle's listing held another video twice and then the first
\* one again, and has ended with one call for each of the two.
C21_Witness ==
    /\ pc = "sleep" /\ life = 1 /\ state_file.kind # "json" /\ log = "save_error"
    /\ Len(videos) = 3 /\ videos[1] = videos[2] /\ videos[3] # videos[1]
    /\ videos[3] \in seen_at_start /\ videos[1] \notin seen_at_start
    /\ life_posts[videos[1]] = 1 /\ life_posts[videos[3]] = 1
    /\ cycle_posts[videos[1]] = 1 /\ cycle_posts[videos[3]] = 0

\* C22, as stated: when the last save of a process failed and the program is
\* started again, the new store holds every id that the last save that
\* succeeded had written to the state file; the ids it may miss are those
\* whose own save failed.
C22_Original ==
    [][(pc = "off" /\ pc' = "poll" /\ log = "save_error")
           => persisted \subseteq last_seen_videos'
      ]_vars

\* The part of C22 that holds: when the last save failed because the file
\* could not be opened, the file is as the last save that succeeded left it,
\* and the new store holds every id written then.
C22_OpenErrorKeepsFile ==
    [][(pc = "off" /\ pc' = "poll" /\ log = "save_error"
           /\ state_file.kind # "malformed")
           => persisted \subseteq last_seen_videos'
      ]_vars

====
